---- MODULE Spec2Model ----
(***************************************************************************)
(* InteractiveSSHClient (src/src/isshc/isshc.py): the recv_text receive    *)
(* loop, send_text, and the channel they talk to.                          *)
(*                                                                         *)
(* Bytes are integers 0..255, text is a sequence of code points, a regular *)
(* expression is a literal string (a sequence of code points, none of them *)
(* a metacharacter), so re.search is substring search.  The encoding is    *)
(* the default, "utf-8".  Time is an integer clock.                        *)
(***************************************************************************)
EXTENDS Integers, Sequences, FiniteSets, TLC

(* ------------------------------ bounds -------------------------------- *)
\* bytes the remote side may emit in one behaviour
MaxDeliver == 2
\* last instant of the clock
MaxTime == 2
\* operations a caller makes one after the other
MaxOps == 4

(* ------------------------- bytes and characters ----------------------- *)
\* U+FFFD, what the "replace" error handler substitutes
ReplacementChar == 65533

\* the bytes the remote side may emit: 'P', 'Q', 0xC3, 0xA9 (C3 A9 = U+00E9),
\* 0xE3 (E3 A9 A9 = U+3A69)
Bytes == {80, 81, 195, 169, 227}

SetMax(S) == CHOOSE x \in S : \A y \in S : y <= x
SetMin(S) == CHOOSE x \in S : \A y \in S : x <= y

\* Optional[...]: None, or a value
None == [some |-> FALSE, v |-> <<>>]
Some(x) == [some |-> TRUE, v |-> x]
\* Python truth value of an Optional[str]: None and "" are both false
Truthy(o) == o.some /\ o.v # <<>>

(* ------------------------------ UTF-8 --------------------------------- *)
\* length of the sequence a lead byte announces; 0 for a byte that cannot lead
SeqLen(b) ==
    IF b < 128 THEN 1
    ELSE IF b \in 194..223 THEN 2
    ELSE IF b \in 224..239 THEN 3
    ELSE IF b \in 240..244 THEN 4
    ELSE 0

\* whether b may be the k-th continuation byte after lead
ContOK(lead, k, b) ==
    IF k = 1 /\ lead = 224 THEN b \in 160..191
    ELSE IF k = 1 /\ lead = 237 THEN b \in 128..159
    ELSE IF k = 1 /\ lead = 240 THEN b \in 144..191
    ELSE IF k = 1 /\ lead = 244 THEN b \in 128..143
    ELSE b \in 128..191

\* number of valid continuation bytes that follow the lead byte at data[i]
ContRun(data, i) ==
    LET n == SeqLen(data[i])
    IN  IF n = 0 THEN 0
        ELSE SetMax({k \in 0..(n - 1) :
                 \A j \in 1..k : i + j <= Len(data) /\ ContOK(data[i], j, data[i + j])})

CodePoint(data, i, n) ==
    IF n = 1 THEN data[i]
    ELSE IF n = 2 THEN (data[i] - 192) * 64 + (data[i + 1] - 128)
    ELSE IF n = 3 THEN (data[i] - 224) * 4096 + (data[i + 1] - 128) * 64
                       + (data[i + 2] - 128)
    ELSE (data[i] - 240) * 262144 + (data[i + 1] - 128) * 4096
         + (data[i + 2] - 128) * 64 + (data[i + 3] - 128)

\* bytes.decode("utf-8", errors) from position i: [ok, text]; with "strict" an
\* ill-formed sequence fails, with "replace" each maximal ill-formed
\* subsequence becomes one U+FFFD
RECURSIVE DecodeFrom(_, _, _)
DecodeFrom(data, i, errors) ==
    IF i > Len(data) THEN [ok |-> TRUE, text |-> <<>>]
    ELSE LET n == SeqLen(data[i])
             k == ContRun(data, i)
         IN  IF n > 0 /\ k = n - 1
             THEN LET rest == DecodeFrom(data, i + n, errors)
                  IN  [ok |-> rest.ok, text |-> <<CodePoint(data, i, n)>> \o rest.text]
             ELSE IF errors = "strict" THEN [ok |-> FALSE, text |-> <<>>]
             ELSE LET rest == DecodeFrom(data, i + k + 1, errors)
                  IN  [ok |-> rest.ok, text |-> <<ReplacementChar>> \o rest.text]

decode_replace_Ignore(data) ==
    SelectSeq(DecodeFrom(data, 1, "replace").text, LAMBDA c : c # ReplacementChar)
decode_replace(data) == DecodeFrom(data, 1, "replace").text

try_decode_Ignore(data) ==
    Some(SelectSeq(DecodeFrom(data, 1, "replace").text, LAMBDA c : c # ReplacementChar))
try_decode_Lenient(data) == Some(DecodeFrom(data, 1, "replace").text)
\* lines 23-27
try_decode(data) ==
    LET r == DecodeFrom(data, 1, "strict")
    IN  IF r.ok THEN Some(r.text) ELSE None

\* str.encode("utf-8") for code points below 65536
RECURSIVE encode(_)
encode(text) ==
    IF text = <<>> THEN <<>>
    ELSE LET c == Head(text)
             b == IF c < 128 THEN <<c>>
                  ELSE IF c < 2048 THEN <<192 + (c \div 64), 128 + (c % 64)>>
                  ELSE <<224 + (c \div 4096), 128 + ((c \div 64) % 64), 128 + (c % 64)>>
         IN  b \o encode(Tail(text))

(* --------------------------- pattern matching ------------------------- *)
\* re.search(pattern, text) for a literal pattern
re_search(pattern, text) ==
    \E i \in 0..(Len(text) - Len(pattern)) :
        SubSeq(text, i + 1, i + Len(pattern)) = pattern

find_pattern(patterns, text) ==
    LET S == {i \in 1..Len(patterns) : re_search(patterns[i], text)}
    IN  IF S = {} THEN None ELSE Some(patterns[SetMin(S)])

\* auto_replies is a dict in insertion order: a sequence of [pat, reply]
Keys(d) == [i \in 1..Len(d) |-> d[i].pat]
Lookup(d, key) == d[CHOOSE i \in 1..Len(d) : d[i].pat = key].reply

(* ------------------------------ inputs -------------------------------- *)
\* patterns: "P", "Q", "PQ", and the empty pattern, which matches any text
PatP == <<80>>
PatQ == <<81>>
PatPQ == <<80, 81>>
PatEmpty == <<>>
\* reply texts: "y" and U+00E9 (two bytes once encoded)
ReplyY == <<121>>
ReplyE == <<233>>

\* the pattern sets of a call: [ar |-> auto_replies, pr |-> prompts]
ArP == <<[pat |-> PatP, reply |-> ReplyY]>>
ArQP == <<[pat |-> PatQ, reply |-> ReplyE], [pat |-> PatP, reply |-> ReplyY]>>
ArEmpty == <<[pat |-> PatEmpty, reply |-> ReplyY]>>
PatternSets ==
    { [ar |-> <<>>, pr |-> <<>>],
      [ar |-> <<>>, pr |-> <<PatPQ, PatQ>>],
      [ar |-> ArP, pr |-> <<PatQ>>],
      [ar |-> ArQP, pr |-> <<PatPQ, PatQ>>],
      [ar |-> ArEmpty, pr |-> <<PatQ>>],
      [ar |-> ArP, pr |-> <<PatEmpty, PatQ>>] }
NBytesSet == {-1, 0, 1, 2}
TimeoutSet == {-1, 0, 1}
\* the partial-text observer: not set, or a callback that returns normally
ObserverSet == {"none", "ok"}
SendTexts == {ReplyY, ReplyE}
\* the observer may also be a callback that raises
FailingObserverSet == {"none", "ok", "fail"}
ObserverPatternSets ==
    { [ar |-> <<>>, pr |-> <<PatPQ, PatQ>>],
      [ar |-> ArP, pr |-> <<PatQ>>] }

(* ------------------------------- state -------------------------------- *)
VARIABLES
    \* configuration of the client (lines 71-76)
    auto_replies, prompts, recv_nbytes, recv_timeout, on_recv_partial_text,
    \* self._session ("none" or "chan"), and the channel: its closed flag and
    \* the bytes it holds ready to be received
    session, chanClosed, chanBuf,
    \* the clock read by datetime.now()
    now,
    \* the call in progress: which one, where it stands, its locals
    op, pc, wait_start_time, timeout_remaining, waitCall,
    recv_buffer, text_buffer, text_archived, reply_text,
    \* the argument of send_text
    text,
    \* how the call ended: its return value, or the exception it raised
    result, err,
    \* history: the I/O of the current call in order (readiness waits, reads,
    \* writes, observer calls); the bytes emitted to this call, each with
    \* the number of writes the call had made when it was emitted; totals
    log, emitted, nDelivered,
    \* the operations the caller has completed, in order
    opsDone

cfgvars == <<auto_replies, prompts, recv_nbytes, recv_timeout, on_recv_partial_text>>
chanvars == <<session, chanClosed, chanBuf>>
locals == <<wait_start_time, timeout_remaining, waitCall,
            recv_buffer, text_buffer, text_archived, reply_text>>
vars == <<cfgvars, chanvars, now, op, pc, locals, text, result, err,
          log, emitted, nDelivered, opsDone>>

NoResult == [text |-> <<>>, prompt |-> None, count |-> -1]
Ev(o, a, n) == [op |-> o, arg |-> a, n |-> n]
Ops(l, o) == SelectSeq(l, LAMBDA e : e.op = o)

RECURSIVE Concat(_)
Concat(ss) == IF ss = <<>> THEN <<>> ELSE Head(ss) \o Concat(Tail(ss))
\* all bytes read by the current call, in order
ReadBytes(l) == Concat([i \in 1..Len(Ops(l, "read")) |-> Ops(l, "read")[i].arg])

\* no call has been made yet
InitCall ==
    /\ chanBuf = <<>>
    /\ now = 0
    /\ op = "none"
    /\ pc = "idle"
    /\ wait_start_time = 0
    /\ timeout_remaining = 0
    /\ waitCall = 0
    /\ recv_buffer = <<>>
    /\ text_buffer = <<>>
    /\ text_archived = <<>>
    /\ reply_text = <<>>
    /\ text = <<>>
    /\ result = NoResult
    /\ err = ""
    /\ log = <<>>
    /\ emitted = <<>>
    /\ nDelivered = 0
    /\ opsDone = <<>>

Init ==
    /\ \E ps \in PatternSets : auto_replies = ps.ar /\ prompts = ps.pr
    /\ recv_nbytes \in NBytesSet
    /\ recv_timeout \in TimeoutSet
    /\ on_recv_partial_text \in ObserverSet
    /\ session \in {"none", "chan"}
    /\ chanClosed \in IF session = "none" THEN {FALSE} ELSE BOOLEAN
    /\ InitCall

(* --------------------------- code fragments --------------------------- *)
InvalidConfig_Strict(nbytes, timeout) == nbytes < 0 \/ timeout < 0
\* lines 165-168: the configuration recv_text refuses
InvalidConfig(nbytes, timeout) == nbytes <= 0 \/ timeout <= 0

TimeoutRemaining_Unclamped(timeout, t, start) == timeout - (t - start)
\* lines 184-185: max(0, recv_timeout - elapsed)
TimeoutRemaining(timeout, t, start) ==
    IF timeout - (t - start) > 0 THEN timeout - (t - start) ELSE 0

\* line 192: what one recv(recv_nbytes) takes from the channel
RecvChunk(buf, nbytes) ==
    SubSeq(buf, 1, IF Len(buf) < nbytes THEN Len(buf) ELSE nbytes)

Archive_Dropped(archived, buffer) == archived
\* lines 181, 188, 209: text_archived += text_buffer
Archive(archived, buffer) == archived \o buffer

\* line 215: the text returned with a matched prompt
PromptText(archived, buffer) == archived \o buffer

\* line 222: the text returned after the loop was left by break; text_archived
\* already ends with text_buffer (lines 181, 188), which is still set
FinalText(archived, buffer, broken) == archived \o buffer \o broken

Notify_Accumulated(l, observer, chunk) ==
    IF observer # "none" THEN Append(l, Ev("observer", text_buffer \o chunk, 0)) ELSE l
\* lines 196-197 and 220-221: the observer, if set, is called with the chunk
Notify(l, observer, chunk) ==
    IF observer # "none" THEN Append(l, Ev("observer", chunk, 0)) ELSE l

\* lines 241-243 and the channel's send: the possible outcomes of
\* send_text.  Without a session nothing is written ("Not connected."); a
\* closed channel refuses the write with an error ("Socket is closed"); an
\* open one accepts some or all of the bytes and reports how many
SendOutcomes(sess, closed, data) ==
    IF sess = "none" THEN {[err |-> "RuntimeError", n |-> -1, wrote |-> FALSE]}
    ELSE IF closed THEN {[err |-> "socket.error", n |-> -1, wrote |-> TRUE]}
    ELSE {[err |-> "", n |-> k, wrote |-> TRUE] : k \in 0..Len(data)}

SendReturn_Requested(data, n) == Len(data)
\* line 243: what send_text returns when the channel accepted n bytes
SendReturn(data, n) == n

\* lines 14-20: select reports the channel readable when it holds data or
\* has been closed
Readable == chanBuf # <<>> \/ chanClosed
WaitExpired == now - waitCall >= timeout_remaining

(* ------------------------------ recv_text ----------------------------- *)
\* lines 165-177: the call starts; bad configuration raises ValueError
CallRecvText ==
    /\ pc = "idle"
    /\ op' = "recv_text"
    /\ log' = <<>>
    /\ emitted' = [i \in 1..Len(chanBuf) |-> [byte |-> chanBuf[i], writes |-> 0]]
    /\ result' = NoResult
    /\ IF InvalidConfig(recv_nbytes, recv_timeout)
       THEN /\ pc' = "raised"
            /\ err' = "ValueError"
            /\ UNCHANGED locals
       ELSE /\ pc' = "check"
            /\ err' = ""
            /\ wait_start_time' = now
            /\ recv_buffer' = <<>>
            /\ text_buffer' = <<>>
            /\ text_archived' = <<>>
            /\ UNCHANGED <<timeout_remaining, waitCall, reply_text>>
    /\ UNCHANGED <<opsDone, cfgvars, chanvars, now, text, nDelivered>>

\* lines 217-222, after line 181 or 188 has run: the lenient final flush
Finish ==
    LET archived == Archive(text_archived, text_buffer)
        broken == IF recv_buffer # <<>> THEN decode_replace(recv_buffer) ELSE <<>>
        called == recv_buffer # <<>> /\ on_recv_partial_text # "none"
    IN  /\ text_archived' = archived
        /\ log' = IF recv_buffer # <<>> THEN Notify(log, on_recv_partial_text, broken)
                  ELSE log
        /\ IF called /\ on_recv_partial_text = "fail"
           THEN /\ pc' = "raised"
                /\ err' = "ObserverError"
                /\ result' = result
           ELSE /\ pc' = "returned"
                /\ err' = err
                /\ result' = [text |-> FinalText(archived, text_buffer, broken),
                              prompt |-> None, count |-> -1]
        /\ UNCHANGED <<wait_start_time, timeout_remaining, waitCall,
                       recv_buffer, text_buffer, reply_text>>

\* lines 179-186: the closed check at the top of a pass, then the call of
\* the readiness wait
ClosedCheck ==
    /\ pc = "check"
    /\ IF session = "none" \/ chanClosed
       THEN Finish
       ELSE /\ pc' = "wait"
            /\ timeout_remaining' = TimeoutRemaining(recv_timeout, now, wait_start_time)
            /\ waitCall' = now
            /\ log' = Append(log, Ev("wait",
                   <<TimeoutRemaining(recv_timeout, now, wait_start_time)>>, 0))
            /\ UNCHANGED <<wait_start_time, recv_buffer, text_buffer, text_archived,
                           reply_text, result, err>>
    /\ UNCHANGED <<opsDone, cfgvars, chanvars, now, op, text, emitted, nDelivered>>

\* line 186: the readiness wait reports the channel readable
WaitReady ==
    /\ pc = "wait"
    /\ Readable
    /\ pc' = "drain"
    /\ UNCHANGED <<opsDone, cfgvars, chanvars, now, op, locals, text, result, err,
                   log, emitted, nDelivered>>

\* lines 186-189: the readiness wait times out
WaitTimeout ==
    /\ pc = "wait"
    /\ chanBuf = <<>>
    /\ WaitExpired
    /\ Finish
    /\ UNCHANGED <<opsDone, cfgvars, chanvars, now, op, text, emitted, nDelivered>>

\* lines 191-192: one turn of the drain loop
DrainRecv ==
    /\ pc = "drain"
    /\ chanBuf # <<>>
    /\ LET chunk == RecvChunk(chanBuf, recv_nbytes)
       IN  /\ recv_buffer' = recv_buffer \o chunk
           /\ chanBuf' = SubSeq(chanBuf, Len(chunk) + 1, Len(chanBuf))
           /\ log' = Append(log, Ev("read", chunk, 0))
    /\ UNCHANGED <<opsDone, cfgvars, session, chanClosed, now, op, pc, wait_start_time,
                   timeout_remaining, waitCall, text_buffer, text_archived,
                   reply_text, text, result, err, emitted, nDelivered>>

\* lines 191-215: recv_ready() is false; decode, notify, classify
DecodeClassify ==
    /\ pc = "drain"
    /\ chanBuf = <<>>
    /\ LET decoded == try_decode(recv_buffer)
           buffer == text_buffer \o decoded.v
           auto_reply == find_pattern(Keys(auto_replies), buffer)
           prompt == find_pattern(prompts, buffer)
       IN  IF ~decoded.some
           THEN /\ pc' = "check"
                /\ UNCHANGED <<locals, result, err, log>>
           ELSE /\ log' = Notify(log, on_recv_partial_text, decoded.v)
                /\ IF on_recv_partial_text = "fail"
                   THEN /\ pc' = "raised"
                        /\ err' = "ObserverError"
                        /\ UNCHANGED <<locals, result>>
                   ELSE /\ text_buffer' = buffer
                        /\ recv_buffer' = <<>>
                        /\ err' = err
                        /\ UNCHANGED <<wait_start_time, timeout_remaining, waitCall,
                                       text_archived>>
                        /\ IF Truthy(auto_reply)
                           THEN /\ pc' = "send"
                                /\ reply_text' = Lookup(auto_replies, auto_reply.v)
                                /\ result' = result
                           ELSE IF Truthy(prompt)
                           THEN /\ pc' = "returned"
                                /\ result' = [text |-> PromptText(text_archived, buffer),
                                              prompt |-> prompt, count |-> -1]
                                /\ reply_text' = reply_text
                           ELSE /\ pc' = "check"
                                /\ UNCHANGED <<reply_text, result>>
    /\ UNCHANGED <<opsDone, cfgvars, chanvars, now, op, text, emitted, nDelivered>>

\* lines 207-211: send the reply, reset the deadline, archive, continue
AutoReply ==
    /\ pc = "send"
    /\ text' = reply_text
    /\ \E o \in SendOutcomes(session, chanClosed, encode(reply_text)) :
         /\ log' = IF o.wrote THEN Append(log, Ev("write", encode(reply_text), o.n))
                   ELSE log
         /\ IF o.err # ""
            THEN /\ pc' = "raised"
                 /\ err' = o.err
                 /\ UNCHANGED locals
            ELSE /\ pc' = "check"
                 /\ err' = err
                 /\ wait_start_time' = now
                 /\ text_archived' = Archive(text_archived, text_buffer)
                 /\ text_buffer' = <<>>
                 /\ UNCHANGED <<timeout_remaining, waitCall, recv_buffer, reply_text>>
    /\ UNCHANGED <<opsDone, cfgvars, chanvars, now, op, result, emitted, nDelivered>>

(* ------------------------------ send_text ----------------------------- *)
\* lines 224-243
CallSendText ==
    /\ pc = "idle"
    /\ op' = "send_text"
    /\ \E t \in SendTexts : \E o \in SendOutcomes(session, chanClosed, encode(t)) :
         /\ text' = t
         /\ log' = IF o.wrote THEN <<Ev("write", encode(t), o.n)>> ELSE <<>>
         /\ err' = o.err
         /\ pc' = IF o.err # "" THEN "raised" ELSE "returned"
         /\ result' = IF o.err # "" THEN NoResult
                      ELSE [text |-> <<>>, prompt |-> None,
                            count |-> SendReturn(encode(t), o.n)]
    /\ emitted' = [i \in 1..Len(chanBuf) |-> [byte |-> chanBuf[i], writes |-> 0]]
    /\ UNCHANGED <<opsDone, cfgvars, chanvars, now, locals, nDelivered>>

(* ----------------------------- environment ---------------------------- *)
InCall == pc \in {"check", "wait", "drain", "send"}

\* the remote side emits a byte, which the channel buffers for recv.  A byte
\* that arrives at another point of a pass is seen by the call exactly as
\* one that arrives at the start of the next readiness wait
Deliver ==
    /\ session = "chan"
    /\ ~chanClosed
    /\ pc \in {"wait", "drain"}
    /\ nDelivered < MaxDeliver
    /\ \E b \in Bytes :
         /\ chanBuf' = Append(chanBuf, b)
         /\ emitted' = Append(emitted, [byte |-> b, writes |-> Len(Ops(log, "write"))])
    /\ nDelivered' = nDelivered + 1
    /\ UNCHANGED <<opsDone, cfgvars, session, chanClosed, now, op, pc, locals, text,
                   result, err, log>>

\* the remote side, or another thread, closes the channel
RemoteClose ==
    /\ session = "chan"
    /\ ~chanClosed
    /\ InCall
    /\ chanClosed' = TRUE
    /\ UNCHANGED <<opsDone, cfgvars, session, chanBuf, now, op, pc, locals, text, result,
                   err, log, emitted, nDelivered>>

\* time passes, between two passes or in the readiness wait; a readiness
\* wait returns as soon as the channel is readable and does not outlast its
\* timeout
Tick ==
    /\ pc \in {"check", "wait"}
    /\ now < MaxTime
    /\ ~(pc = "wait" /\ (WaitExpired \/ Readable))
    /\ now' = now + 1
    /\ UNCHANGED <<opsDone, cfgvars, chanvars, op, pc, locals, text, result, err,
                   log, emitted, nDelivered>>

Next ==
    \/ CallRecvText
    \/ ClosedCheck
    \/ WaitReady
    \/ WaitTimeout
    \/ DrainRecv
    \/ DecodeClassify
    \/ AutoReply
    \/ CallSendText
    \/ Deliver
    \/ RemoteClose
    \/ Tick

Spec == Init /\ [][Next]_vars

\* the same client on an open session, with a valid configuration and an
\* observer that may raise
InitObs ==
    /\ \E ps \in ObserverPatternSets : auto_replies = ps.ar /\ prompts = ps.pr
    /\ recv_nbytes \in {1, 2}
    /\ recv_timeout = 1
    /\ on_recv_partial_text \in FailingObserverSet
    /\ session = "chan"
    /\ chanClosed = FALSE
    /\ InitCall

SpecObs == InitObs /\ [][Next]_vars

(* --------------------------- session lifecycle ------------------------ *)
\* the session-open steps that may fail, in the order the code makes them;
\* "assert" is get_transport returning None
OpenFailures == {"get_transport", "assert", "open_session", "get_pty", "invoke_shell"}

CloseSession_KeepClosed(sess, closed) ==
    [ log |-> <<Ev("close_session", <<>>,
                   IF sess = "none" THEN 0 ELSE IF closed THEN 2 ELSE 1)>>
              \o (IF sess = "chan" /\ ~closed THEN <<Ev("chan.close", <<>>, 0)>> ELSE <<>>),
      session |-> IF sess = "chan" /\ closed THEN "chan" ELSE "none" ]
\* lines 94-99, _close_session: the calls it makes and the session it leaves.
\* The call is logged with what it found: 0 no session, 1 an open channel,
\* 2 a channel already closed
CloseSession(sess, closed) ==
    [ log |-> <<Ev("close_session", <<>>,
                   IF sess = "none" THEN 0 ELSE IF closed THEN 2 ELSE 1)>>
              \o (IF sess = "chan" /\ ~closed THEN <<Ev("chan.close", <<>>, 0)>> ELSE <<>>),
      session |-> "none" ]

\* lines 90-92, _close_connection
CloseConnection == <<Ev("close_connection", <<>>, 0)>>

OnOpenFailure_ConnectionOnly(sess, closed) ==
    [log |-> CloseConnection, session |-> sess]
\* lines 120-124: the clean-up of a failed session open
OnOpenFailure(sess, closed) ==
    [ log |-> CloseSession(sess, closed).log \o CloseConnection,
      session |-> CloseSession(sess, closed).session ]

\* lines 113-118: the calls _open_session makes up to and including the one
\* that fails (all of them when none fails)
OpenSteps(f) ==
    <<Ev("get_transport", <<>>, 0)>>
    \o (IF f \in {"get_transport", "assert"} THEN <<>>
        ELSE <<Ev("open_session", <<>>, 0)>>
             \o (IF f = "open_session" THEN <<>>
                 ELSE <<Ev("get_pty", <<>>, 0)>>
                      \o (IF f = "get_pty" THEN <<>>
                          ELSE <<Ev("invoke_shell", <<>>, 0)>>)))

\* lines 126-131, close_shell
CloseShell ==
    /\ pc = "idle"
    /\ op' = "close_shell"
    /\ log' = CloseSession(session, chanClosed).log \o CloseConnection
    /\ session' = CloseSession(session, chanClosed).session
    /\ chanClosed' = IF session' = "none" THEN FALSE ELSE chanClosed
    /\ chanBuf' = IF session' = "none" THEN <<>> ELSE chanBuf
    /\ pc' = "returned"
    /\ err' = ""
    /\ result' = NoResult
    /\ UNCHANGED <<opsDone, cfgvars, now, locals, text, emitted, nDelivered>>

\* lines 133-140 and 111-124, open_shell: connect, then _open_session, in
\* which any step may fail; a channel that was created may be found closed
\* when the failure is handled
OpenShell ==
    /\ pc = "idle"
    /\ op' = "open_shell"
    /\ result' = NoResult
    /\ \/ /\ err' = "connect"
          /\ pc' = "raised"
          /\ log' = <<Ev("connect", <<>>, 0)>>
          /\ UNCHANGED chanvars
       \/ /\ err' = ""
          /\ pc' = "returned"
          /\ log' = <<Ev("connect", <<>>, 0)>> \o OpenSteps("")
          /\ session' = "chan"
          /\ chanClosed' = FALSE
          /\ chanBuf' = <<>>
       \/ \E f \in OpenFailures : \E c \in BOOLEAN :
            LET created == f \in {"get_pty", "invoke_shell"}
                sess == IF created THEN "chan" ELSE session
                closed == IF created THEN c ELSE chanClosed
            IN  /\ err' = f
                /\ pc' = "raised"
                /\ log' = <<Ev("connect", <<>>, 0)>> \o OpenSteps(f)
                            \o OnOpenFailure(sess, closed).log
                /\ session' = OnOpenFailure(sess, closed).session
                /\ chanClosed' = IF session' = "none" THEN FALSE ELSE closed
                /\ chanBuf' = <<>>
    /\ UNCHANGED <<opsDone, cfgvars, now, locals, text, emitted, nDelivered>>

\* the operation has returned or raised, and the caller goes on to its next
\* one
Return ==
    /\ pc \in {"returned", "raised"}
    /\ Len(opsDone) < MaxOps
    /\ opsDone' = Append(opsDone, op)
    /\ pc' = "idle"
    /\ op' = "none"
    /\ wait_start_time' = 0
    /\ timeout_remaining' = 0
    /\ waitCall' = 0
    /\ recv_buffer' = <<>>
    /\ text_buffer' = <<>>
    /\ text_archived' = <<>>
    /\ reply_text' = <<>>
    /\ text' = <<>>
    /\ result' = NoResult
    /\ err' = ""
    /\ log' = <<>>
    /\ emitted' = <<>>
    /\ UNCHANGED <<cfgvars, chanvars, now, nDelivered>>

LifePatternSets == { [ar |-> ArP, pr |-> <<PatQ>>] }

InitLife ==
    /\ \E ps \in LifePatternSets : auto_replies = ps.ar /\ prompts = ps.pr
    /\ recv_nbytes \in {0, 2}
    /\ recv_timeout \in {1, 2}
    /\ on_recv_partial_text \in ObserverSet
    /\ session \in {"none", "chan"}
    /\ chanClosed \in IF session = "none" THEN {FALSE} ELSE BOOLEAN
    /\ InitCall

\* the remote side is silent here: it may close the channel but emits no
\* data, so recv_text never has bytes to drain or a reply to send
NextLife ==
    \/ OpenShell
    \/ CloseShell
    \/ CallSendText
    \/ CallRecvText
    \/ ClosedCheck
    \/ WaitReady
    \/ WaitTimeout
    \/ DecodeClassify
    \/ Return
    \/ RemoteClose
    \/ Tick

\* any sequence of open_shell, close_shell, send_text and recv_text
SpecLife == InitLife /\ [][NextLife]_vars

(* =============================== claims =============================== *)
Range(q) == {q[i] : i \in 1..Len(q)}
Bytes0(em) == SelectSeq(em, LAMBDA e : e.writes = 0)
Bytes1(em) == SelectSeq(em, LAMBDA e : e.writes > 0)
BytesOf(em) == [i \in 1..Len(em) |-> em[i].byte]
\* the position of the first write in a log, 0 if there is none
FirstWrite(l) ==
    IF Ops(l, "write") = <<>> THEN 0
    ELSE SetMin({i \in 1..Len(l) : l[i].op = "write"})
\* the step that decodes and classifies (it always leaves "drain"), in a
\* pass that read data
DecodeStep == pc = "drain" /\ pc' # "drain" /\ recv_buffer # <<>>
\* the steps that leave the loop by break: a timed-out readiness wait, a
\* closed check that finds the channel closed or missing
TimeoutStep == pc = "wait" /\ pc' \notin {"wait", "drain"}
ClosedStep == pc = "check" /\ pc' \notin {"check", "wait"}
NewBuffer == text_buffer \o try_decode(recv_buffer).v

(* ---- C1 ---- *)
\* the scenario: one auto-reply "P" -> "y", one prompt "Q"; the channel
\* emitted A before any write and B after the write, A decodes to text that
\* matches P and not Q, B to text that matches Q and not P; the call read
\* all of it and returned
C1_Scenario ==
    LET A == BytesOf(Bytes0(emitted))
        B == BytesOf(Bytes1(emitted))
    IN  /\ op = "recv_text" /\ pc = "returned"
        /\ auto_replies = ArP /\ prompts = <<PatQ>>
        /\ B # <<>>
        /\ ReadBytes(log) = A \o B
        /\ try_decode(A).some /\ try_decode(B).some
        /\ re_search(PatP, try_decode(A).v) /\ ~re_search(PatQ, try_decode(A).v)
        /\ re_search(PatQ, try_decode(B).v) /\ ~re_search(PatP, try_decode(B).v)

\* C1: auto-reply round trip.  In that scenario recv_text returns (A + B, Q),
\* the write primitive was invoked exactly once, with the reply, and the
\* write lies after the reads of A and before the reads of B.
C1_AutoReplyRoundTrip ==
    C1_Scenario =>
        LET A == BytesOf(Bytes0(emitted))
            B == BytesOf(Bytes1(emitted))
            w == FirstWrite(log)
        IN  /\ result.text = try_decode(A).v \o try_decode(B).v
            /\ result.prompt = Some(PatQ)
            /\ Len(Ops(log, "write")) = 1
            /\ Ops(log, "write")[1].arg = encode(ReplyY)
            /\ ReadBytes(SubSeq(log, 1, w)) = A
            /\ ReadBytes(SubSeq(log, w + 1, Len(log))) = B

C1_Witness ==
    /\ C1_Scenario
    /\ result.text = <<80, 81>>
    /\ Ops(log, "write") # <<>>

(* ---- C2 ---- *)
\* C2: prompt termination.  In a pass where decoding succeeds, no auto-reply
\* pattern matches textBuffer and some prompt pattern does, recv_text returns
\* in that pass (archivedText + textBuffer, the first matching prompt), with
\* no further wait, read or write.
C2_PromptTermination ==
    [][ ( /\ DecodeStep
          /\ try_decode(recv_buffer).some
          /\ \A i \in 1..Len(auto_replies) : ~re_search(auto_replies[i].pat, NewBuffer)
          /\ \E i \in 1..Len(prompts) : re_search(prompts[i], NewBuffer) )
        => ( /\ pc' = "returned"
             /\ result'.text = text_archived \o NewBuffer
             /\ result'.prompt = find_pattern(prompts, NewBuffer)
             /\ Ops(log', "wait") = Ops(log, "wait")
             /\ Ops(log', "read") = Ops(log, "read")
             /\ Ops(log', "write") = Ops(log, "write") ) ]_vars

(* ---- C3 ---- *)
\* C3: classification priority.  When textBuffer matches both an auto-reply
\* pattern and a prompt pattern in one pass, recv_text sends the auto-reply,
\* archives textBuffer and continues the loop; it does not return in that
\* pass.
C3_AutoReplyFirst ==
    [][ /\ ( /\ DecodeStep
             /\ try_decode(recv_buffer).some
             /\ \E i \in 1..Len(auto_replies) : re_search(auto_replies[i].pat, NewBuffer)
             /\ \E i \in 1..Len(prompts) : re_search(prompts[i], NewBuffer) )
           => ( /\ pc' = "send"
                /\ reply_text' = Lookup(auto_replies,
                                        find_pattern(Keys(auto_replies), NewBuffer).v) )
        /\ (pc = "send" /\ pc' # "send")
           => ( /\ pc' = "check"
                /\ Ops(log', "write") = Append(Ops(log, "write"), log'[Len(log')])
                /\ text_archived' = text_archived \o text_buffer
                /\ text_buffer' = <<>> ) ]_vars

(* ---- C4 ---- *)
\* C4: idle timeout.  When the readiness wait of an open channel times out,
\* recv_text returns (all text accumulated so far, None) without raising,
\* having waited no longer than recv_timeout after the reference point; with
\* no data at all it returns ("", None) after a single wait, no read and no
\* write.
C4_IdleTimeout ==
    [][ (TimeoutStep /\ ~chanClosed)
        => ( /\ pc' = "returned"
             /\ result'.prompt = None
             /\ result'.text = text_archived \o text_buffer \o decode_replace(recv_buffer)
             /\ (now - waitCall > 0 => now <= wait_start_time + recv_timeout)
             /\ (emitted = <<>>
                 => /\ result'.text = <<>>
                    /\ Len(log') = 1 /\ log'[1].op = "wait") ) ]_vars

(* ---- C5 ---- *)
\* C5: closed channel.  When the closed check finds no session or a closed
\* channel, the call ends with prompt None and textBuffer flushed into the
\* returned text; before any I/O of the call it returns ("", None) with no
\* wait, read, write or observer call.
C5_ClosedChannel ==
    [][ (ClosedStep /\ (session = "none" \/ chanClosed))
        => ( /\ pc' = "returned"
             /\ result'.prompt = None
             /\ result'.text = text_archived \o text_buffer \o decode_replace(recv_buffer)
             /\ (log = <<>> => result'.text = <<>> /\ log' = <<>>) ) ]_vars

\* the part of C5 that the code keeps: closed before the first pass
C5_ClosedAtStart ==
    [][ (ClosedStep /\ log = <<>>)
        => (pc' = "returned" /\ result' = NoResult /\ log' = <<>>) ]_vars

(* ---- C6 ---- *)
\* C6: configuration precondition.  With recv_nbytes <= 0 or recv_timeout <= 0
\* recv_text raises ValueError before any I/O: no wait, read, write or
\* observer call, the session, the channel and the configuration unchanged,
\* and nothing of the call runs afterwards.
C6_InvalidConfigRaises ==
    [][ /\ (op = "none" /\ op' = "recv_text" /\ (recv_nbytes <= 0 \/ recv_timeout <= 0))
           => ( /\ pc' = "raised" /\ err' = "ValueError"
                /\ log' = <<>>
                /\ UNCHANGED <<cfgvars, chanvars>> )
        /\ (op = "recv_text" /\ (recv_nbytes <= 0 \/ recv_timeout <= 0))
           => FALSE ]_vars

C6_Witness ==
    /\ op = "recv_text" /\ pc = "raised" /\ err = "ValueError"
    /\ recv_timeout = 0 /\ recv_nbytes > 0
    /\ session = "chan" /\ ~chanClosed

(* ---- C7 ---- *)
\* C7: fragmentation tolerance.  A pass whose bytes end inside a multi-byte
\* character leaves them in rawBuffer and the text untouched; the pass that
\* completes the character decodes the joined bytes into textBuffer; and
\* when the bytes read by the call are well-formed as a whole, the returned
\* text holds their characters and no replacement character.
C7_Fragmentation ==
    /\ [][ /\ (pc = "drain" /\ pc' # "drain" /\ ~DecodeFrom(recv_buffer, 1, "strict").ok)
              => (pc' = "check" /\ UNCHANGED <<recv_buffer, text_buffer, text_archived>>)
           /\ (pc = "drain" /\ pc' # "drain" /\ DecodeFrom(recv_buffer, 1, "strict").ok)
              => ( /\ recv_buffer' = <<>>
                   /\ text_buffer' = text_buffer \o DecodeFrom(recv_buffer, 1, "strict").text )
         ]_vars
    /\ []( ( /\ op = "recv_text" /\ pc = "returned"
             /\ DecodeFrom(ReadBytes(log), 1, "strict").ok )
           => ( /\ ReplacementChar \notin Range(result.text)
                /\ Range(result.text)
                     = Range(DecodeFrom(ReadBytes(log), 1, "strict").text) ) )

\* U+00E9 arrived as C3 in one pass and A9 in the next
C7_Witness ==
    /\ op = "recv_text" /\ pc = "returned"
    /\ \E i, j, k \in 1..Len(log) :
         /\ i < j /\ j < k
         /\ log[i].op = "read" /\ log[i].arg = <<195>>
         /\ log[j].op = "wait"
         /\ log[k].op = "read" /\ log[k].arg = <<169>>
    /\ ReadBytes(log) = <<195, 169>>
    /\ 233 \in Range(result.text)
    /\ ReplacementChar \notin Range(result.text)

(* ---- C8 ---- *)
\* one placeholder per byte that is not part of a complete well-formed
\* sequence
RECURSIVE PerByteReplace(_, _)
PerByteReplace(data, i) ==
    IF i > Len(data) THEN <<>>
    ELSE LET n == SeqLen(data[i])
         IN  IF n > 0 /\ ContRun(data, i) = n - 1
             THEN <<CodePoint(data, i, n)>> \o PerByteReplace(data, i + n)
             ELSE <<ReplacementChar>> \o PerByteReplace(data, i + 1)

\* the reading "one placeholder per invalid byte" of the replacement
\* decoding: an incomplete multi-byte sequence of two bytes yields one
\* placeholder, so this is violated
C8_OnePlaceholderPerByte ==
    [][ ((TimeoutStep \/ ClosedStep) /\ recv_buffer # <<>>)
        => decode_replace(recv_buffer) = PerByteReplace(recv_buffer, 1) ]_vars

\* C8: lenient final flush.  When recv_text ends by timeout or close with a
\* non-empty rawBuffer, it returns archivedText + textBuffer + the
\* replacement decoding of rawBuffer and prompt None, and the observer, if
\* set, is invoked exactly once more, with that remainder; with an empty
\* rawBuffer there is no final observer call.
C8_LenientFlush ==
    [][ (TimeoutStep \/ ClosedStep)
        => IF recv_buffer # <<>>
           THEN /\ pc' = "returned"
                /\ result'.prompt = None
                /\ result'.text = text_archived \o text_buffer
                                    \o decode_replace(recv_buffer)
                /\ log' = IF on_recv_partial_text # "none"
                          THEN Append(log, Ev("observer", decode_replace(recv_buffer), 0))
                          ELSE log
           ELSE log' = log ]_vars

(* ---- C9 ---- *)
\* C9: send_text.  Without a session it raises "Not connected." and writes
\* nothing; with one it makes exactly one channel write, of the encoded
\* text, and returns exactly the count the channel reported.
C9_SendText ==
    op = "send_text" =>
        IF session = "none"
        THEN pc = "raised" /\ err = "RuntimeError" /\ log = <<>>
        ELSE /\ Len(log) = 1
             /\ log[1].op = "write"
             /\ log[1].arg = encode(text)
             /\ (~chanClosed => pc = "returned")
             /\ (pc = "returned" => result.count = log[1].n)
             /\ (pc = "raised" => err = "socket.error")

\* a partial write: one of two bytes accepted
C9_Witness ==
    /\ op = "send_text" /\ pc = "returned"
    /\ text = ReplyE
    /\ log = <<[op |-> "write", arg |-> <<195, 169>>, n |-> 1]>>
    /\ result.count = 1

(* ---- C10 ---- *)
\* C10: recv_text never raises because of a normal protocol condition; it
\* raises only for bad configuration or a missing connection.
C10_NeverRaises ==
    (op = "recv_text" /\ pc = "raised") => err \in {"ValueError", "RuntimeError"}

(* ---- C11 ---- *)
\* what the reads of a log amount to, replayed from position i: the text of
\* the chunks that strict decoding accepted, and the bytes read since the
\* last accepted chunk.  The reads of one pass are contiguous in the log, so
\* a pass ends at the first event that is not a read, or at the end
RECURSIVE Replay(_, _, _, _)
Replay(l, i, txt, raw) ==
    LET d == DecodeFrom(raw, 1, "strict")
    IN  IF i > Len(l)
        THEN IF d.ok THEN [text |-> txt \o d.text, raw |-> <<>>]
             ELSE [text |-> txt, raw |-> raw]
        ELSE IF l[i].op = "read" THEN Replay(l, i + 1, txt, raw \o l[i].arg)
        ELSE IF d.ok THEN Replay(l, i + 1, txt \o d.text, <<>>)
        ELSE Replay(l, i + 1, txt, raw)

C11_AtTopOfPass ==
    (op = "recv_text" /\ pc \in {"check", "wait"})
        => /\ text_archived \o text_buffer = Replay(log, 1, <<>>, <<>>).text
           /\ recv_buffer = Replay(log, 1, <<>>, <<>>).raw

(* ---- C12 ---- *)
\* C12: deadline discipline.  The reference point is set to the current time
\* at call start and again when an auto-reply has been sent, and by no other
\* step of the call (not by a pass that decodes without a match, a pass
\* whose decode fails, or a readiness wait); every readiness wait is called
\* with max(0, recv_timeout - time since the reference point), which lies in
\* 0..recv_timeout.
C12_DeadlineDiscipline ==
    [][ /\ (pc = "idle" /\ pc' = "check") => wait_start_time' = now
        /\ (pc = "send" /\ pc' = "check") => wait_start_time' = now
        /\ (InCall /\ ~(pc = "send" /\ pc' = "check"))
              => wait_start_time' = wait_start_time
        /\ (pc = "check" /\ pc' = "wait")
              => /\ log' = Append(log, Ev("wait", <<timeout_remaining'>>, 0))
                 /\ timeout_remaining' \in 0..recv_timeout
                 /\ timeout_remaining' =
                      SetMax({0, recv_timeout - (now - wait_start_time)}) ]_vars

\* a wait after an auto-reply, with the full timeout again although the
\* call is older than recv_timeout; and, in the log, an earlier wait that was
\* called with nothing left
C12_Witness ==
    /\ op = "recv_text" /\ pc = "wait"
    /\ Ops(log, "write") # <<>>
    /\ wait_start_time > 0
    /\ timeout_remaining = recv_timeout
    /\ \E i \in 1..Len(log) : log[i].op = "wait" /\ log[i].arg = <<0>>

(* ---- C13 ---- *)
\* C13: termination under a chatty channel.  Once recv_timeout has elapsed
\* since the reference point, the readiness wait of an open channel ends the
\* call with (text, None), whether or not data is readable then; so a channel
\* that has data at every wait cannot keep the call alive past the deadline.
C13_ChattyTimeout ==
    [][ ( /\ pc = "wait" /\ pc' # "wait"
          /\ ~chanClosed
          /\ now - wait_start_time >= recv_timeout )
        => (pc' = "returned" /\ result'.prompt = None) ]_vars

(* ---- C14 ---- *)
\* C14: observer firing.  With an observer configured, a pass whose strict
\* decode succeeds calls it exactly once, with the chunk decoded in that pass
\* and before any write of that pass; a pass whose decode fails does not call
\* it; when the call ends by timeout or close it is called once more if
\* rawBuffer is not empty, with the lenient decoding of rawBuffer, and not
\* otherwise; no other step calls it.
C14_ObserverFiring ==
    [][ (op = "recv_text" /\ on_recv_partial_text # "none")
        => /\ (pc = "drain" /\ pc' # "drain")
                => IF DecodeFrom(recv_buffer, 1, "strict").ok
                   THEN log' = Append(log, Ev("observer",
                                   DecodeFrom(recv_buffer, 1, "strict").text, 0))
                   ELSE log' = log
           /\ (TimeoutStep \/ ClosedStep)
                => IF recv_buffer # <<>>
                   THEN log' = Append(log, Ev("observer",
                                   DecodeFrom(recv_buffer, 1, "replace").text, 0))
                   ELSE log' = log
           /\ ~( \/ (pc = "drain" /\ pc' # "drain")
                 \/ TimeoutStep \/ ClosedStep )
                => Ops(log', "observer") = Ops(log, "observer") ]_vars

\* "P" decoded and delivered in one pass; C3 alone in the next, which fails
\* to decode and delivers nothing; the final flush delivers one U+FFFD
C14_Witness ==
    /\ op = "recv_text" /\ pc = "returned"
    /\ on_recv_partial_text = "ok"
    /\ ReadBytes(log) = <<80, 195>>
    /\ Len(Ops(log, "wait")) >= 3
    /\ Ops(log, "observer")
         = <<Ev("observer", <<80>>, 0), Ev("observer", <<ReplacementChar>>, 0)>>

(* ---- C15 ---- *)
\* a step that attempts a read or a write on the channel
ReadAttempt == pc = "drain" /\ Len(Ops(log', "read")) > Len(Ops(log, "read"))
WriteAttempt ==
    \/ pc = "send" /\ Len(Ops(log', "write")) > Len(Ops(log, "write"))
    \/ pc = "idle" /\ op' = "send_text" /\ Ops(log', "write") # <<>>

\* C15: closed-session invariant.  Once the channel is closed, no step of
\* recv_text or send_text attempts a read or a write on it.
C15_NoIOAfterClose ==
    [][ chanClosed => ~(ReadAttempt \/ WriteAttempt) ]_vars

\* the same for recv_text alone: the channel may close after the closed check
\* of a pass, and the pass reads or writes all the same
C15_RecvTextNoIOAfterClose ==
    [][ (chanClosed /\ op = "recv_text") => ~(ReadAttempt \/ WriteAttempt) ]_vars

(* ---- C16 ---- *)
\* C16: a pass whose strict decode fails changes no text state.  textBuffer,
\* archivedText and the reference point are unchanged, rawBuffer keeps the
\* bytes it had and those drained in the pass, there is no observer call, no
\* classification (no reply chosen, no return) and no write, and the call is
\* at the closed check of the next pass.
C16_DecodeFailureNoOp ==
    [][ (pc = "drain" /\ pc' # "drain" /\ ~DecodeFrom(recv_buffer, 1, "strict").ok)
        => ( /\ pc' = "check"
             /\ UNCHANGED <<text_buffer, text_archived, wait_start_time,
                            recv_buffer, reply_text, result, err, log>>
             /\ recv_buffer' = Replay(log', 1, <<>>, <<>>).raw ) ]_vars

\* "P" is in textBuffer; the next pass read C3 alone and failed to decode
C16_Witness ==
    /\ op = "recv_text" /\ pc = "check"
    /\ text_buffer = <<80>>
    /\ recv_buffer = <<195>>
    /\ log[Len(log)] = Ev("read", <<195>>, 0)
    /\ on_recv_partial_text = "ok"
    /\ Len(Ops(log, "observer")) = 1

(* ---- C17 ---- *)
\* the position of the last write in a log, 0 if there is none
LastWrite(l) ==
    IF Ops(l, "write") = <<>> THEN 0
    ELSE SetMax({i \in 1..Len(l) : l[i].op = "write"})
\* the text received after the last auto-reply pass
TextSinceReply(l) ==
    DecodeFrom(ReadBytes(SubSeq(l, LastWrite(l) + 1, Len(l))), 1, "strict").text

\* C17: auto-reply step.  A pass in which an auto-reply pattern matches
\* textBuffer issues exactly one write, of the reply mapped to the first
\* matching pattern in iteration order, then moves textBuffer to archivedText
\* and empties it; a prompt that ends the call matches the text received
\* after the last auto-reply pass.
C17_AutoReplyStep ==
    /\ [][ /\ ( /\ DecodeStep
                /\ DecodeFrom(recv_buffer, 1, "strict").ok
                /\ \E i \in 1..Len(auto_replies) :
                       re_search(auto_replies[i].pat, NewBuffer) )
              => LET first == SetMin({i \in 1..Len(auto_replies) :
                                       re_search(auto_replies[i].pat, NewBuffer)})
                 IN  /\ pc' = "send"
                     /\ reply_text' = auto_replies[first].reply
                     /\ text_buffer' = NewBuffer
           /\ (pc = "send" /\ pc' # "send")
              => ( /\ pc' = "check"
                   /\ log' = Append(log, log'[Len(log')])
                   /\ log'[Len(log')].op = "write"
                   /\ log'[Len(log')].arg = encode(reply_text)
                   /\ text_archived' = text_archived \o text_buffer
                   /\ text_buffer' = <<>> ) ]_vars
    /\ []( (op = "recv_text" /\ pc = "returned" /\ result.prompt.some)
           => re_search(result.prompt.v, TextSinceReply(log)) )

\* the part of C17 that the code keeps: archived text is not matched again
C17_ArchivedNeverMatched ==
    (op = "recv_text" /\ pc = "returned" /\ result.prompt.some)
        => /\ re_search(result.prompt.v, TextSinceReply(log))
           /\ result.text = text_archived \o TextSinceReply(log)

(* ---- C18 ---- *)
\* C18: observer passivity.  What a pass does after a successful decode, and
\* how the call ends on timeout or close, does not depend on the observer:
\* the pass goes on to the classification of textBuffer (send the reply,
\* return the prompt, or continue) with the chunk appended and rawBuffer
\* emptied, the exit returns prompt None, whether no observer is set, or one
\* that returns, or one that fails; and no step invokes the observer twice.
C18_ObserverPassive ==
    [][ op = "recv_text"
        => /\ (pc = "drain" /\ pc' # "drain" /\ DecodeFrom(recv_buffer, 1, "strict").ok)
                => /\ pc' = IF Truthy(find_pattern(Keys(auto_replies), NewBuffer))
                              THEN "send"
                            ELSE IF Truthy(find_pattern(prompts, NewBuffer))
                              THEN "returned"
                            ELSE "check"
                   /\ text_buffer' = NewBuffer
                   /\ recv_buffer' = <<>>
           /\ (TimeoutStep \/ ClosedStep)
                => (pc' = "returned" /\ result'.prompt = None)
           /\ Len(Ops(log', "observer")) <= Len(Ops(log, "observer")) + 1 ]_vars

(* ---- C19 ---- *)
\* the last open_shell or close_shell among the completed operations
LastSessionOp(done) ==
    LET S == {i \in 1..Len(done) : done[i] \in {"open_shell", "close_shell"}}
    IN  IF S = {} THEN "none" ELSE done[SetMax(S)]

\* C19: session teardown.  close_shell leaves the reader without a session,
\* calls the channel's close exactly when a session was held and was not
\* already closed, and closes the connection once; a second close_shell
\* changes nothing on the session.  From a close_shell until the next
\* open_shell, in any sequence of operations, the reader holds no session,
\* send_text raises "Not connected." without a write, and recv_text (with a
\* valid configuration) returns ("", None) with no wait, read or write.
C19_SessionTeardown ==
    /\ [][ /\ (pc = "idle" /\ op' = "close_shell")
              => ( /\ session' = "none"
                   /\ pc' = "returned"
                   /\ Len(Ops(log', "close_session")) = 1
                   /\ Len(Ops(log', "chan.close"))
                        = (IF session = "chan" /\ ~chanClosed THEN 1 ELSE 0)
                   /\ Len(Ops(log', "close_connection")) = 1
                   /\ (session = "none" => UNCHANGED chanvars) )
           /\ (session = "none" /\ op' # "open_shell") => session' = "none" ]_vars
    /\ []( (LastSessionOp(opsDone) = "close_shell" /\ op # "open_shell")
           => /\ session = "none"
              /\ (op = "send_text"
                    => pc = "raised" /\ err = "RuntimeError" /\ log = <<>>)
              /\ (op = "recv_text" /\ ~(recv_nbytes <= 0 \/ recv_timeout <= 0))
                    => ( /\ pc \in {"check", "returned"}
                         /\ log = <<>>
                         /\ (pc = "returned" => result = NoResult) ) )

\* a session was opened and closed again, a second close_shell found nothing
\* to close, and the recv_text that followed returned ("", None)
C19_Witness ==
    /\ opsDone = <<"open_shell", "close_shell", "close_shell">>
    /\ op = "recv_text" /\ pc = "returned"
    /\ result = NoResult /\ log = <<>>
    /\ session = "none"

(* ---- C20 ---- *)
\* C20: failed session open.  When a step of _open_session fails (no
\* transport, open_session, get_pty, invoke_shell), open_shell raises that
\* failure, the reader holds no session, _close_session and
\* _close_connection have each run exactly once, in this order and after
\* the failed step, and the channel is closed: it was created by this call
\* or held before it, and close was called on it unless it was closed
\* already.
C20_FailedOpen ==
    [][ (pc = "idle" /\ op' = "open_shell" /\ err' \in OpenFailures)
        => LET n == Len(log')
           IN  /\ pc' = "raised"
               /\ session' = "none"
               /\ Len(Ops(log', "close_session")) = 1
               /\ Len(Ops(log', "close_connection")) = 1
               /\ log'[n].op = "close_connection"
               /\ Ops(log', "close_session")[1].n
                    \in (IF err' \in {"get_pty", "invoke_shell"} THEN {1, 2}
                         ELSE IF session = "none" THEN {0}
                         ELSE IF chanClosed THEN {2} ELSE {1})
               /\ IF Ops(log', "close_session")[1].n = 1
                  THEN /\ log'[n - 1].op = "chan.close"
                       /\ log'[n - 2].op = "close_session"
                       /\ Len(Ops(log', "chan.close")) = 1
                  ELSE /\ log'[n - 1].op = "close_session"
                       /\ Ops(log', "chan.close") = <<>>
               /\ SubSeq(log', 2, n - Len(OnOpenFailure("none", FALSE).log)
                                    - Len(Ops(log', "chan.close")))
                    = OpenSteps(err') ]_vars

\* get_pty failed on a channel that open_session had just created and that
\* was still open: the channel was closed, then the connection
C20_Witness ==
    /\ op = "open_shell" /\ pc = "raised" /\ err = "get_pty"
    /\ session = "none"
    /\ log = << Ev("connect", <<>>, 0), Ev("get_transport", <<>>, 0),
                Ev("open_session", <<>>, 0), Ev("get_pty", <<>>, 0),
                Ev("close_session", <<>>, 1), Ev("chan.close", <<>>, 0),
                Ev("close_connection", <<>>, 0) >>

(* ---- C21 ---- *)
\* the text of all observer calls of a log, in order
ObservedText(l) ==
    Concat([i \in 1..Len(Ops(l, "observer")) |-> Ops(l, "observer")[i].arg])

\* C21: no data loss.  Whenever recv_text returns, by prompt, timeout or
\* close, the returned text is the concatenation of the chunks
\* strict-decoded in the call followed by the lenient decoding of the bytes
\* left in rawBuffer, which is empty on a return by prompt; and the chunks
\* delivered to a configured observer add up to the returned text.
C21_NoDataLoss ==
    (op = "recv_text" /\ pc = "returned")
        => LET r == Replay(log, 1, <<>>, <<>>)
           IN  /\ result.text = r.text \o DecodeFrom(r.raw, 1, "replace").text
               /\ (result.prompt.some => r.raw = <<>>)
               /\ (on_recv_partial_text # "none" => ObservedText(log) = result.text)

\* the part of C21 that the code keeps: nothing is lost on the way to the
\* observer, and a return by prompt carries the text exactly once
C21_ObserverSeesEveryChunk ==
    (op = "recv_text" /\ pc = "returned")
        => LET r == Replay(log, 1, <<>>, <<>>)
           IN  /\ (on_recv_partial_text # "none"
                     => ObservedText(log) = r.text \o DecodeFrom(r.raw, 1, "replace").text)
               /\ (result.prompt.some => (r.raw = <<>> /\ result.text = r.text))

(* ---- C22 ---- *)
\* no continuation makes the bytes from position i on valid: strict decoding
\* rejects a byte, and not merely because the bytes end inside a sequence
\* that is well-formed so far
RECURSIVE PoisonedFrom(_, _)
PoisonedFrom(data, i) ==
    IF i > Len(data) THEN FALSE
    ELSE IF SeqLen(data[i]) = 0 THEN TRUE
    ELSE IF i + SeqLen(data[i]) - 1 > Len(data)
    THEN \E j \in (i + 1)..Len(data) : ~ContOK(data[i], j - i, data[j])
    ELSE IF \A j \in (i + 1)..(i + SeqLen(data[i]) - 1) : ContOK(data[i], j - i, data[j])
    THEN PoisonedFrom(data, i + SeqLen(data[i]))
    ELSE TRUE
Poisoned(raw) == PoisonedFrom(raw, 1)

\* C22: poisoned raw buffer.  Once rawBuffer holds bytes that no continuation
\* can make valid, it stays so for the rest of the call: textBuffer and
\* archivedText do not change, no reply is chosen or written and no prompt is
\* returned, whatever bytes follow; the call ends only by timeout or close,
\* with prompt None and a text that ends with the lenient decoding of all of
\* rawBuffer.
C22_PoisonedBuffer ==
    [][ (op = "recv_text" /\ InCall /\ recv_buffer # <<>> /\ Poisoned(recv_buffer))
        => /\ Poisoned(recv_buffer')
           /\ UNCHANGED <<text_buffer, reply_text>>
           /\ \A k \in (Len(log) + 1)..Len(log') : log'[k].op # "write"
           /\ pc' \in {"check", "wait", "drain", "returned"}
           /\ (pc' = "returned"
                 => /\ TimeoutStep \/ ClosedStep
                    /\ result'.prompt = None
                    /\ LET broken == DecodeFrom(recv_buffer, 1, "replace").text
                           n == Len(result'.text)
                       IN  /\ n >= Len(broken)
                           /\ SubSeq(result'.text, n - Len(broken) + 1, n) = broken)
           /\ (pc' # "returned" => text_archived' = text_archived) ]_vars

\* a lone continuation byte poisoned rawBuffer, then "Q" arrived, which is
\* the prompt; the call ended with prompt None and U+FFFD "Q"
C22_Witness ==
    /\ op = "recv_text" /\ pc = "returned"
    /\ prompts = <<PatPQ, PatQ>>
    /\ ReadBytes(log) = <<169, 81>>
    /\ Len(Ops(log, "wait")) >= 3
    /\ result.prompt = None
    /\ result.text = <<ReplacementChar, 81>>

====
